---- MODULE Spec2Model ----
(***************************************************************************)
(* Model of ordenar_1.3.py: one run of plot_data(folder_paths, output_file, *)
(* graph_file).  The run scans every folder for .csv files, keeps the last  *)
(* value of each file's second column, converts units, inner-joins the      *)
(* per-folder tables on NumericPart, writes the spreadsheet, then draws one *)
(* interpolated curve per folder and saves the figure.                      *)
(*                                                                          *)
(* Representation.  A file name is the sequence of its dot-separated        *)
(* segments and a segment is a sequence of one-character strings, so        *)
(* "r.01.csv" is <<<<"r">>, <<"0","1">>, <<"c","s","v">>>>.  A folder path  *)
(* is the sequence of its "/"-separated components.  Numbers are fixed      *)
(* point: speeds in 1e-4 m/s, forces in 1e-5 N.  A DataFrame is a record    *)
(* [cols, rows]: the column labels in order and the rows as tuples.         *)
(***************************************************************************)
EXTENDS Integers, Sequences, FiniteSets, TLC

\* Most directory entries one os.listdir call yields.
MaxFiles == 4

\* lbf_a_N = 4.44822, in units of 1e-5.
lbf_a_N == 444822
\* fts_a_ms = 0.3048, in units of 1e-4.
fts_a_ms == 3048
\* interp1d(kind='cubic') is a spline of order 3 and needs order + 1 points.
CubicMinPoints == 4
\* np.linspace(x.min(), x.max(), 500)
NumSamples == 500

---------------------------------------------------------------------------
(* Sequence helpers *)

Range(s) == {s[i] : i \in 1..Len(s)}

Last(s) == s[Len(s)]

RECURSIVE Concat(_)
Concat(ss) == IF ss = <<>> THEN <<>> ELSE Head(ss) \o Concat(Tail(ss))

---------------------------------------------------------------------------
(* The environment: names, file contents and folder paths the run may meet *)

CSV == <<"c", "s", "v">>
TXT == <<"t", "x", "t">>

\* read_csv outcomes: an unreadable file raises; a readable one is a table
\* with ncols columns and the given data rows.
Unreadable == [readable |-> FALSE, ncols |-> 0, rows |-> <<>>]
Table(n, rs) == [readable |-> TRUE, ncols |-> n, rows |-> rs]

Entry(nm, c) == [name |-> nm, content |-> c]

Entries ==
    { Entry(<<<<"r">>, <<"1">>, CSV>>, Table(2, << <<0, 11>>, <<1, 50>> >>)),
      Entry(<<<<"r">>, <<"2">>, CSV>>, Table(2, << <<0, 80>> >>)),
      Entry(<<<<"r">>, <<"3">>, CSV>>, Table(3, << <<0, 12, 1>>, <<1, 55, 2>> >>)),
      Entry(<<<<"r">>, <<"4">>, CSV>>, Table(2, << <<0, 13>>, <<1, 14>>, <<2, 85>> >>)),
      Entry(<<<<"r">>, <<"5">>, CSV>>, Table(2, << <<0, 60>> >>)),
      Entry(<<<<"r">>, <<"0", "1">>, CSV>>, Table(2, << <<0, 70>> >>)),
      Entry(<<<<"r">>, <<"x">>, CSV>>, Table(2, << <<0, 90>> >>)),
      Entry(<<<<"r">>, <<"6">>, CSV>>, Unreadable),
      Entry(<<<<"r">>, <<"7">>, CSV>>, Table(1, << <<7>> >>)),
      Entry(<<<<"r">>, <<"8">>, CSV>>, Table(2, <<>>)),
      Entry(<<<<"r">>, <<"9">>, TXT>>, Table(2, << <<0, 95>> >>)) }

\* The file e as it is found under path: the files under q/b hold other
\* measurements than their namesakes elsewhere, 5 more in the second column.
OnDisk(path, e) ==
    IF path = <<"q", "b">> /\ e.content.readable
    THEN Entry(e.name,
               Table(e.content.ncols,
                     [i \in 1..Len(e.content.rows) |->
                        [j \in 1..Len(e.content.rows[i]) |->
                           IF j = 2 THEN e.content.rows[i][j] + 5
                           ELSE e.content.rows[i][j]]]))
    ELSE e

PathA == <<"p", "a">>
PathB == <<"q", "b">>
PathA2 == <<"q", "a">>
PathSlash == <<"q", "">>

---------------------------------------------------------------------------
(* Library functions used by the script *)

\* str.endswith(".csv"): the name has a dot and its final segment is "csv".
EndsWithCsv(name) == Len(name) >= 2 /\ Last(name) = CSV

\* os.path.splitext(name)[0]: the name up to its last dot; a dot that only
\* follows leading dots does not start an extension.
SplitextBase(name) ==
    IF Len(name) >= 2 /\ \E i \in 1..(Len(name) - 1) : name[i] # <<>>
    THEN SubSeq(name, 1, Len(name) - 1)
    ELSE name

\* os.path.basename(path): the component after the last "/".
Basename(path) == Last(path)

Digits == [c \in {"0", "1", "2", "3", "4", "5", "6", "7", "8", "9"} |->
             CASE c = "0" -> 0 [] c = "1" -> 1 [] c = "2" -> 2 [] c = "3" -> 3
               [] c = "4" -> 4 [] c = "5" -> 5 [] c = "6" -> 6 [] c = "7" -> 7
               [] c = "8" -> 8 [] c = "9" -> 9]

\* float(s) succeeds on a non-empty run of decimal digits (the only numeric
\* literals among the modelled names) and raises ValueError otherwise.
IsFloat(seg) == seg # <<>> /\ \A i \in 1..Len(seg) : seg[i] \in DOMAIN Digits

RECURSIVE Float(_)
Float(seg) ==
    IF seg = <<>> THEN 0
    ELSE 10 * Float(SubSeq(seg, 1, Len(seg) - 1)) + Digits[Last(seg)]

\* extract_numeric_part: float(filename.split('.')[-1]).  The argument is a
\* FileName value, already a sequence of dot-separated segments.
CanExtract(filename) == IsFloat(Last(filename))
extract_numeric_part(filename) == Float(Last(filename))

---------------------------------------------------------------------------
(* Python values *)

None == <<>>
Some(v) == <<v>>
Get(opt) == opt[1]

\* An insertion-ordered dict as a sequence of <<key, value>> pairs.
DictKeys(d) == {d[i][1] : i \in 1..Len(d)}
DictPut(d, k, v) ==
    IF k \in DictKeys(d)
    THEN [i \in 1..Len(d) |-> IF d[i][1] = k THEN <<k, v>> ELSE d[i]]
    ELSE Append(d, <<k, v>>)

---------------------------------------------------------------------------
(* DataFrames *)

KeyCol == "NumericPart"
FolderCols == <<"FileName", "LastValue", "NumericPart", "Drag_N", "Potencia_necesaria">>

DataFrame(cs, rs) == [cols |-> cs, rows |-> rs]
IsEmpty(df) == df.rows = <<>>

\* Position of the first column labelled c.
ColIdx(cs, c) == CHOOSE i \in 1..Len(cs) : cs[i] = c /\ \A j \in 1..(i - 1) : cs[j] # c
Column(df, c) == [i \in 1..Len(df.rows) |-> df.rows[i][ColIdx(df.cols, c)]]
Keys(df) == Range(Column(df, KeyCol))

\* v_true * drag / 1000.  The fixed-point product of the two factors does not
\* fit TLC's 32-bit integers, so the power is kept in units of
\* fts_a_ms * lbf_a_N * 1e-12 kW, in which the quotients below are exact.
Potencia(v_true, drag) == (v_true \div fts_a_ms) * (drag \div lbf_a_N)

\* One row of a folder's table (lines 49-67): FileName, LastValue, then the
\* converted NumericPart, Drag_N and Potencia_necesaria.
FolderRow(item) ==
    LET numeric == extract_numeric_part(item[1])
        v_true  == numeric * fts_a_ms
        drag    == item[2] * lbf_a_N
    IN  <<item[1], item[2], numeric * fts_a_ms, drag, Potencia(v_true, drag)>>

FolderTable(d) == DataFrame(FolderCols, [i \in 1..Len(d) |-> FolderRow(d[i])])

\* tuple t without position k
Without(t, k) == SubSeq(t, 1, k - 1) \o SubSeq(t, k + 1, Len(t))

\* pd.merge(left, right, on='NumericPart', suffixes=('', suffix)): an inner
\* join.  A label of right that left also has gets the suffix; left's labels
\* are kept; the key column appears once, where left has it.  Rows follow
\* left's order, then right's.
MergeCols(left, right, suffix) ==
    LET rk == ColIdx(right.cols, KeyCol)
        rc == Without(right.cols, rk)
    IN  left.cols \o [j \in 1..Len(rc) |->
                        IF rc[j] \in Range(left.cols) THEN rc[j] \o suffix ELSE rc[j]]

\* MergeRows pairing every row of left with every row of right.
MergeRows_cross(left, right) ==
    LET rk == ColIdx(right.cols, KeyCol)
    IN  Concat([i \in 1..Len(left.rows) |->
                  [j \in 1..Len(right.rows) |->
                     left.rows[i] \o Without(right.rows[j], rk)]])

MergeRows(left, right) ==
    LET lk == ColIdx(left.cols, KeyCol)
        rk == ColIdx(right.cols, KeyCol)
        Matches(i) == [j \in 1..Len(right.rows) |->
                         IF left.rows[i][lk] = right.rows[j][rk]
                         THEN <<left.rows[i] \o Without(right.rows[j], rk)>>
                         ELSE <<>>]
    IN  Concat([i \in 1..Len(left.rows) |-> Concat(Matches(i))])

Merge(left, right, suffix) ==
    DataFrame(MergeCols(left, right, suffix), MergeRows(left, right))

\* df.sort_values(by='NumericPart'): the default quicksort is not stable, so
\* rows with equal keys may come out in any order.
RECURSIVE SortedRows(_, _)
SortedRows(rs, k) ==
    IF rs = <<>> THEN {<<>>}
    ELSE LET least == {i \in 1..Len(rs) : \A j \in 1..Len(rs) : rs[i][k] <= rs[j][k]}
         IN  UNION {{<<rs[i]>> \o rest : rest \in SortedRows(Without(rs, i), k)} : i \in least}

\* SortValues leaving the rows as they are.
SortValues_asIs(df) == {df}

SortValues(df) ==
    {DataFrame(df.cols, rs) : rs \in SortedRows(df.rows, ColIdx(df.cols, KeyCol))}

\* CanInterpolate for kind='linear', which two points satisfy.
CanInterpolate_linear(x) ==
    /\ Len(x) >= 2
    /\ \A i, j \in 1..Len(x) : i # j => x[i] # x[j]

\* interp1d(x, y, kind='cubic') raises ValueError when there are fewer than
\* order + 1 points or when x has repeated values.
CanInterpolate(x) ==
    /\ Len(x) >= CubicMinPoints
    /\ \A i, j \in 1..Len(x) : i # j => x[i] # x[j]

---------------------------------------------------------------------------
(* The run *)

VARIABLES
    folder_paths,  \* the argument of plot_data
    pc,            \* where the run is: "scan", "merge", "plot", or how it ended
    fi,            \* process_csv_folders: position of the folder loop
    listed,        \* directory entries os.listdir has yielded for this folder
    data,          \* process_csv_folders: the dict base name -> last value
    all_data,      \* the dict folder path -> folder table (all_dfs in plot_data)
    merged_df,     \* None or the merged DataFrame
    pi,            \* plot_data: position of the plot loop
    figure,        \* the line+scatter pairs drawn so far
    excel,         \* None or the table written to output_file
    image          \* None or the figure written to graph_file

vars == <<folder_paths, pc, fi, listed, data, all_data, merged_df, pi,
          figure, excel, image>>

\* The inputs explored.  A run over one folder meets the whole catalogue of
\* entries.  The run over p/a and q/b meets five files with distinct keys and
\* an unreadable one; the run over q/a and q/b meets two files with the same
\* key, a third file and one without data rows; a run over three folders
\* meets two keys and the file without data rows.
FolderLists == {<<PathA>>, <<PathA, PathB>>, <<PathA2, PathB>>,
                <<PathA, PathB, PathA2>>, <<PathB, PathA, PathA2>>,
                <<PathA, PathSlash, PathB>>, <<PathA, PathA, PathB>>,
                <<PathB, PathA2, PathA2>>}
DeepEntries == {e \in Entries : e.name[2] \in {<<"1">>, <<"2">>, <<"3">>, <<"4">>,
                                                <<"5">>, <<"6">>}}
SameKeyEntries == {e \in Entries : e.name[2] \in {<<"1">>, <<"0", "1">>, <<"2">>, <<"8">>}}
WideEntries == {e \in Entries : e.name[2] \in {<<"1">>, <<"2">>, <<"8">>}}
Catalog ==
    CASE Len(folder_paths) = 1 -> Entries
      [] folder_paths = <<PathA, PathB>> -> DeepEntries
      [] Len(folder_paths) = 2 -> SameKeyEntries
      [] OTHER -> WideEntries

Init ==
    /\ folder_paths \in FolderLists
    /\ pc = "scan"
    /\ fi = 1
    /\ listed = {}
    /\ data = <<>>
    /\ all_data = <<>>
    /\ merged_df = None
    /\ pi = 1
    /\ figure = <<>>
    /\ excel = None
    /\ image = None

\* ScanFile with a failed read discarding what the folder had yielded so far.
ScanFile_dropOnError(d, e) ==
    IF ~EndsWithCsv(e.name) THEN d
    ELSE IF ~e.content.readable THEN <<>>
    ELSE IF e.content.ncols > 1
         THEN IF e.content.rows = <<>> THEN <<>>
              ELSE DictPut(d, SplitextBase(e.name), Last(e.content.rows)[2])
         ELSE d

\* ScanFile reading the first row, iloc[0, 1], instead of the last.
ScanFile_firstRow(d, e) ==
    IF ~EndsWithCsv(e.name) THEN d
    ELSE IF ~e.content.readable THEN d
    ELSE IF e.content.ncols > 1
         THEN IF e.content.rows = <<>> THEN d
              ELSE DictPut(d, SplitextBase(e.name), Head(e.content.rows)[2])
         ELSE d

\* Lines 31-46, the body of the file loop for one entry: the new value of
\* data.  Every exception of the read is caught and the file is skipped.
ScanFile(d, e) ==
    IF ~EndsWithCsv(e.name) THEN d
    ELSE IF ~e.content.readable THEN d                 \* read_csv raises
    ELSE IF e.content.ncols > 1
         THEN IF e.content.rows = <<>> THEN d          \* iloc[-1, 1] raises
              ELSE DictPut(d, SplitextBase(e.name), Last(e.content.rows)[2])
         ELSE d

\* Line 30: os.listdir yields one more entry and the loop body runs on it.
ListEntry ==
    /\ pc = "scan"
    /\ Cardinality(listed) < MaxFiles
    /\ \E c \in Catalog :
         LET e == OnDisk(folder_paths[fi], c)
         IN  /\ \A o \in listed : o.name # e.name
             /\ listed' = listed \cup {e}
             /\ data' = ScanFile(data, e)
    /\ UNCHANGED <<folder_paths, pc, fi, all_data, merged_df, pi, figure,
                   excel, image>>

\* Lines 49-72 once os.listdir is exhausted: build the folder's table, or
\* skip an empty folder; after the last folder, return all_data (line 74).
\* extract_numeric_part raises out of the run on a non-numeric segment.
EndFolder ==
    /\ pc = "scan"
    /\ IF data # <<>> /\ \E i \in 1..Len(data) : ~CanExtract(data[i][1])
       THEN /\ pc' = "ValueError_extract_numeric_part"
            /\ UNCHANGED <<fi, listed, data, all_data>>
       ELSE /\ all_data' = IF data = <<>>
                           THEN all_data
                           ELSE DictPut(all_data, folder_paths[fi], FolderTable(data))
            /\ pc' = IF fi = Len(folder_paths) THEN "merge" ELSE "scan"
            /\ fi' = fi + 1
            /\ listed' = {}
            /\ data' = <<>>
    /\ UNCHANGED <<folder_paths, merged_df, pi, figure, excel, image>>

\* Line 87's suffix for a folder.
Suffix(folder) == "_" \o Basename(folder)

\* Lines 82-87: the merge loop over all_dfs.items() from position i on, with
\* merged_df = acc so far.
RECURSIVE MergeLoop(_, _, _)
MergeLoop(dfs, acc, i) ==
    IF i > Len(dfs) THEN acc
    ELSE MergeLoop(dfs,
                   IF acc = None
                   THEN Some(dfs[i][2])
                   ELSE Some(Merge(Get(acc), dfs[i][2], Suffix(dfs[i][1]))),
                   i + 1)

\* NothingMerged without the .empty test.
NothingMerged_noneOnly(m) == m = None

\* Line 90: merged_df is None or merged_df.empty
NothingMerged(m) == IF m = None THEN TRUE ELSE IsEmpty(Get(m))

\* Lines 82-92: the merge leaves nothing to export and the run returns.
ExitNoData ==
    /\ pc = "merge"
    /\ LET m == MergeLoop(all_data, None, 1)
       IN  /\ NothingMerged(m)
           /\ merged_df' = m
    /\ pc' = "exit_no_data"
    /\ UNCHANGED <<folder_paths, fi, listed, data, all_data, pi, figure, excel,
                   image>>

\* to_excel leaving no file.
to_excel_notWritten(df) == None

\* Line 98: merged_df.to_excel(output_file): the file now holds the table.
to_excel(df) == Some(df)

\* Lines 82-99: merge, sort in place and write the spreadsheet.  With a
\* single folder table merged_df is that table itself (line 85), so the
\* in-place sort reorders it in all_dfs too.
Export ==
    /\ pc = "merge"
    /\ LET m == MergeLoop(all_data, None, 1)
       IN  /\ ~NothingMerged(m)
           /\ \E sorted \in SortValues(Get(m)) :
                /\ merged_df' = Some(sorted)
                /\ excel' = to_excel(sorted)
                /\ all_data' = IF Len(all_data) = 1
                               THEN <<<<all_data[1][1], sorted>>>>
                               ELSE all_data
    /\ pc' = "plot"
    /\ UNCHANGED <<folder_paths, fi, listed, data, pi, figure, image>>

\* Lines 120-122: the curve sampled over [x.min(), x.max()] and the scatter
\* of the folder's own points.
Pair(folder, x, y) ==
    [line    |-> [label |-> "Power (" \o Basename(folder) \o ")",
                  from |-> x[1], to |-> x[Len(x)], samples |-> NumSamples],
     scatter |-> [label |-> "Data points " \o Basename(folder), x |-> x, y |-> y]]

\* PlotSource reading the merged table.
PlotSource_merged(dfs, merged, i) == Get(merged)

\* Line 105: the table the i-th iteration of the plot loop works on, an item
\* of all_dfs.
PlotSource(dfs, merged, i) == dfs[i][2]

\* Lines 105-122: one iteration of the plot loop.  interp1d raises out of the
\* run when it cannot fit a cubic.
PlotFolder ==
    /\ pc = "plot"
    /\ pi <= Len(all_data)
    /\ \E df \in SortValues(PlotSource(all_data, merged_df, pi)) :
         LET x == Column(df, KeyCol)
             y == Column(df, "Potencia_necesaria")
         IN  IF CanInterpolate(x)
             THEN /\ figure' = Append(figure, Pair(all_data[pi][1], x, y))
                  /\ pi' = pi + 1
                  /\ pc' = pc
             ELSE /\ pc' = "ValueError_interp1d"
                  /\ UNCHANGED <<figure, pi>>
    /\ UNCHANGED <<folder_paths, fi, listed, data, all_data, merged_df,
                   excel, image>>

\* Lines 125-138: decorate and save the figure.
SaveFig ==
    /\ pc = "plot"
    /\ pi > Len(all_data)
    /\ image' = Some(figure)
    /\ pc' = "done"
    /\ UNCHANGED <<folder_paths, fi, listed, data, all_data, merged_df, pi,
                   figure, excel>>

Next ==
    \/ ListEntry
    \/ EndFolder
    \/ ExitNoData
    \/ Export
    \/ PlotFolder
    \/ SaveFig

Spec == Init /\ [][Next]_vars

---------------------------------------------------------------------------
(* Vocabulary of the properties *)

IsCsv(e) == EndsWithCsv(e.name)
\* a .csv entry that read_csv loads, with a second column and a data row
ValidCsv(e) ==
    /\ IsCsv(e)
    /\ e.content.readable
    /\ e.content.ncols >= 2
    /\ e.content.rows # <<>>
BadCsv(e) == IsCsv(e) /\ ~ValidCsv(e)
NumericName(e) == IsFloat(Last(SplitextBase(e.name)))

ScanOver == pc \in {"merge", "plot", "done", "exit_no_data", "ValueError_interp1d"}
MergeOver == pc \in {"plot", "done", "exit_no_data", "ValueError_interp1d"}

TableOf(i) == all_data[i][2]
\* keys every folder table has
CommonKeys ==
    IF all_data = <<>> THEN {}
    ELSE {k \in Keys(TableOf(1)) : \A i \in 1..Len(all_data) : k \in Keys(TableOf(i))}
UniqueKeys(df) == Cardinality(Keys(df)) = Len(df.rows)
SortedByKey(df) ==
    LET x == Column(df, KeyCol)
    IN  \A i \in 1..(Len(x) - 1) : x[i] <= x[i + 1]
Written(f) == f # None

---------------------------------------------------------------------------
(* C1 *)

\* C1: a .csv entry that cannot be read, has no data row or has fewer than
\* two columns is the only thing skipped: while a folder is scanned, data
\* holds exactly the valid .csv files listed so far, whatever bad files were
\* listed among them, and the run is only ever aborted out of the scan by a
\* valid file with a non-numeric name, never by a bad file.
C1_BadFileOnlySkipped ==
    /\ pc \in {"scan", "ValueError_extract_numeric_part"} =>
         DictKeys(data) = {SplitextBase(e.name) : e \in {x \in listed : ValidCsv(x)}}
    /\ pc = "ValueError_extract_numeric_part" =>
         \E e \in listed : ValidCsv(e) /\ ~NumericName(e)

\* The second folder is being scanned after the first gave a table; a bad
\* .csv file has been listed and two valid files are in data.
C1_Witness ==
    /\ pc = "scan"
    /\ fi = 2
    /\ all_data # <<>>
    /\ \E e \in listed : BadCsv(e)
    /\ Len(data) >= 2

(* C2 *)

\* C2: a readable .csv file with a second column and a non-numeric final
\* segment is left out and the run goes on; one such name never aborts the
\* folder or the run.
C2_BadNameNeverAborts == pc # "ValueError_extract_numeric_part"

(* C3 *)

\* C3: when no folder gave a table, or the folder tables have no key in
\* common, the run gets no further than the early return: no spreadsheet, no
\* drawing, no image.  The spreadsheet, once written, has at least one row.
C3_NoOutputWithoutData ==
    /\ Written(excel) => Get(excel).rows # <<>>
    /\ (ScanOver /\ CommonKeys = {}) =>
         /\ pc \in {"merge", "exit_no_data"}
         /\ ~Written(excel)
         /\ ~Written(image)
         /\ figure = <<>>

\* The run returned early although two folders gave tables: their keys are
\* disjoint.
C3_Witness ==
    /\ pc = "exit_no_data"
    /\ Len(all_data) = 2
    /\ ~Written(excel)

(* C4 *)

\* C4: only non-empty tables are kept in all_dfs, and the keys of the merged
\* table are exactly the keys common to all of them.
C4_InnerJoinKeys ==
    /\ \A i \in 1..Len(all_data) : TableOf(i).rows # <<>>
    /\ MergeOver =>
         IF merged_df = None THEN all_data = <<>>
         ELSE Keys(Get(merged_df)) = CommonKeys

\* Three folder tables were merged, a key survived and another, present in
\* only some of them, was dropped.
C4_Witness ==
    /\ MergeOver
    /\ Len(all_data) = 3
    /\ merged_df # None
    /\ Keys(Get(merged_df)) # {}
    /\ \E i \in 1..3 : Keys(TableOf(i)) # Keys(Get(merged_df))

(* C5 *)

\* C5 as claimed: two folder tables with the same key set give a spreadsheet
\* with one row per shared key, sorted ascending by key.
C5_RowPerSharedKey ==
    (Written(excel) /\ Len(all_data) = 2 /\ Keys(TableOf(1)) = Keys(TableOf(2))) =>
        /\ Len(Get(excel).rows) = Cardinality(Keys(TableOf(1)))
        /\ SortedByKey(Get(excel))

\* C5 amended: the spreadsheet is always sorted ascending by key; two folder
\* tables with the same key set give one row per shared key provided no two
\* files of one folder have the same numeric key.
C5_RowPerSharedKeyIfUnique ==
    /\ Written(excel) => SortedByKey(Get(excel))
    /\ (/\ Written(excel)
        /\ Len(all_data) = 2
        /\ Keys(TableOf(1)) = Keys(TableOf(2))
        /\ UniqueKeys(TableOf(1))
        /\ UniqueKeys(TableOf(2))) =>
          Len(Get(excel).rows) = Cardinality(Keys(TableOf(1)))

\* Two folders with the same three or more keys, one file per key, listed
\* out of order in the first folder, and the spreadsheet written.
C5_Witness ==
    /\ Written(excel)
    /\ Len(all_data) = 2
    /\ Keys(TableOf(1)) = Keys(TableOf(2))
    /\ UniqueKeys(TableOf(1))
    /\ UniqueKeys(TableOf(2))
    /\ Len(TableOf(1).rows) >= 3
    /\ ~SortedByKey(TableOf(1))

(* C6 *)

CsvListed == {e \in listed : IsCsv(e)}

\* C6: when the listing of a folder ends and every .csv entry listed is valid
\* with a numeric name, the folder's table has one row per .csv entry, keyed
\* by the name without its extension and carrying the last row's value of the
\* second column; entries without the extension give no row.
C6_RowPerValidFile ==
    [][ (pc = "scan" /\ fi' = fi + 1
         /\ \A e \in CsvListed : ValidCsv(e) /\ NumericName(e)) =>
          IF CsvListed = {} THEN all_data' = all_data
          ELSE \E k \in 1..Len(all_data') :
                 /\ all_data'[k][1] = folder_paths[fi]
                 /\ Len(all_data'[k][2].rows) = Cardinality(CsvListed)
                 /\ \A e \in CsvListed :
                      \E r \in 1..Len(all_data'[k][2].rows) :
                        /\ all_data'[k][2].rows[r][1] = SplitextBase(e.name)
                        /\ all_data'[k][2].rows[r][2] = Last(e.content.rows)[2]
      ]_vars

\* A stored folder table of three rows, one of them the file r.4 with its
\* last value 85 (its earlier rows hold 13 and 14).
C6_Witness ==
    \E i \in 1..Len(all_data) :
        /\ Len(TableOf(i).rows) = 3
        /\ \E r \in 1..3 :
             /\ TableOf(i).rows[r][1] = <<<<"r">>, <<"4">>>>
             /\ TableOf(i).rows[r][2] = 85

(* C7 *)

\* C7: a folder table with fewer than four distinct keys is never drawn and
\* stops the plot: the loop does not get past it, the run does not finish and
\* no image is written.
C7_TooFewPointsSurfaced ==
    \A i \in 1..Len(all_data) :
        Cardinality(Keys(TableOf(i))) < CubicMinPoints =>
            /\ Len(figure) < i
            /\ pc # "done"
            /\ ~Written(image)

\* The plot raised on a table of four rows that has fewer than four distinct
\* keys.
C7_Witness ==
    /\ pc = "ValueError_interp1d"
    /\ \E i \in 1..Len(all_data) :
         /\ Len(TableOf(i).rows) >= CubicMinPoints
         /\ Cardinality(Keys(TableOf(i))) < CubicMinPoints

(* C8 *)

\* C8: the column labels of the merged table are pairwise distinct.
C8_DistinctColumns ==
    merged_df # None =>
        \A i, j \in 1..Len(Get(merged_df).cols) :
            i # j => Get(merged_df).cols[i] # Get(merged_df).cols[j]

(* C9 *)

PointsOf(df) ==
    {<<df.rows[r][ColIdx(df.cols, KeyCol)], df.rows[r][ColIdx(df.cols, "Potencia_necesaria")]>> :
        r \in 1..Len(df.rows)}

\* C9: the pairs drawn are, in order, one per folder table of all_dfs, each
\* made of all (key, power) rows of that folder's own table in ascending key
\* order with the curve spanning its least to its greatest key; the image
\* holds one pair per folder table.
C9_PlotsFolderTables ==
    /\ Len(figure) = pi - 1
    /\ Len(figure) <= Len(all_data)
    /\ \A i \in 1..Len(figure) :
         LET sc == figure[i].scatter
             ln == figure[i].line
         IN  /\ Len(sc.x) = Len(TableOf(i).rows)
             /\ {<<sc.x[j], sc.y[j]>> : j \in 1..Len(sc.x)} = PointsOf(TableOf(i))
             /\ \A j \in 1..(Len(sc.x) - 1) : sc.x[j] < sc.x[j + 1]
             /\ ln.from = sc.x[1]
             /\ ln.to = sc.x[Len(sc.x)]
             /\ \A k \in Keys(TableOf(i)) : ln.from <= k /\ k <= ln.to
    /\ Written(image) => Get(image) = figure /\ Len(figure) = Len(all_data)

\* The image holds the pairs of two folders, the first drawn with a key that
\* the inner join dropped from the merged table.
C9_Witness ==
    /\ Written(image)
    /\ Len(figure) = 2
    /\ merged_df # None
    /\ \E j \in 1..Len(figure[1].scatter.x) :
         figure[1].scatter.x[j] \notin Keys(Get(merged_df))

(* C10 *)

\* C10: the image is written only after the spreadsheet, and a plot that
\* raises leaves the spreadsheet written and no image.
C10_SpreadsheetBeforeImage ==
    /\ Written(image) => Written(excel)
    /\ pc = "ValueError_interp1d" => Written(excel) /\ ~Written(image)

\* The plot raised on the second folder after drawing the first: the
\* spreadsheet is there, the image is not.
C10_Witness ==
    /\ pc = "ValueError_interp1d"
    /\ Len(figure) = 1
    /\ Written(excel)
    /\ ~Written(image)

====
